---- MODULE Spec2Model ----
(***************************************************************************)
(* The TINY lexer (lexer.c) and its driver loop (main.c) as a state        *)
(* machine.  Characters are byte values; strings are sequences of bytes.   *)
(* One step of the machine is the entry of getToken, one iteration of its  *)
(* while loop (getNextChar, the switch, the save, the DONE handling), or   *)
(* its return into the loop of main.  A store outside the array            *)
(* tokenString is undefined behaviour: the run is followed no further.     *)
(***************************************************************************)
EXTENDS Integers, Sequences, FiniteSets, TLC

(***************************************************************************)
(* Bounds of the model.                                                    *)
(***************************************************************************)
\* longest source file, in characters, of the exhaustively enumerated family
MaxLen == 4
\* how far beyond MAXTOKENLEN the enumerated letter and digit runs go
MaxExtra == 2
\* how many reads past the last line (the counter keeps growing) are followed
MaxSpin == 3
\* how many calls of getNextChar by a caller other than getToken are followed
MaxClientReads == 2

(***************************************************************************)
(* Program constants.                                                      *)
(***************************************************************************)
BUFLEN == 256
MAXTOKENLEN == 40
MAXRESERVED == 8
EOF == -1

Min(a, b) == IF a < b THEN a ELSE b

(***************************************************************************)
(* <ctype.h> in the "C" locale (main never calls setlocale).               *)
(***************************************************************************)
isalpha(c) == (c >= 65 /\ c <= 90) \/ (c >= 97 /\ c <= 122)

isdigit(c) == c >= 48 /\ c <= 57

\* ' ' \t \n \r \f \v, the test of the START case
IsWhite(c) == c \in {32, 9, 10, 13, 12, 11}

\* a char of lineBuf converted to the int that getNextChar returns
CharToInt(b, signed) == IF signed /\ b > 127 THEN b - 256 ELSE b

\* (char)c, kept as the byte that is stored
IntToChar(c) == c % 256

(***************************************************************************)
(* The line buffer.  A buffer state b is a record with the fields          *)
(*   source, srcpos : the file's bytes and how many fgets has read         *)
(*   charSigned     : whether plain char is signed in this build           *)
(*   lineBuf, linepos, bufsize, EOF_flag, lineno : the C variables         *)
(***************************************************************************)

\* fgets(lineBuf, BUFLEN - 1, source): at most BUFLEN - 2 bytes, through the
\* first newline; the empty sequence stands for NULL (nothing left to read)
fgets(b) ==
  LET last == Min(Len(b.source), b.srcpos + (BUFLEN - 2))
      nls  == {i \in (b.srcpos + 1)..last : b.source[i] = 10}
      end  == IF nls = {} THEN last
              ELSE CHOOSE i \in nls : \A j \in nls : i <= j
  IN  SubSeq(b.source, b.srcpos + 1, end)

\* strlen: the number of bytes before the first NUL
strlen(s) ==
  LET z == {i \in 1..Len(s) : s[i] = 0}
  IN  IF z = {} THEN Len(s)
      ELSE (CHOOSE i \in z : \A j \in z : i <= j) - 1

\* getNextChar: the buffer state after the call, with the returned int in c
getNextChar(b) ==
  IF ~(b.linepos < b.bufsize)
  THEN LET line == fgets(b)
       IN  IF line # << >>
           THEN [b EXCEPT !.lineno = b.lineno + 1,
                          !.srcpos = b.srcpos + Len(line),
                          !.lineBuf = line,
                          !.bufsize = strlen(line),
                          !.linepos = 1,
                          !.c = CharToInt(line[1], b.charSigned)]
           ELSE [b EXCEPT !.lineno = b.lineno + 1,
                          !.EOF_flag = TRUE,
                          !.c = EOF]
  ELSE [b EXCEPT !.linepos = b.linepos + 1,
                 !.c = CharToInt(b.lineBuf[b.linepos + 1], b.charSigned)]

\* ungetNextChar without its test of EOF_flag
ungetNextChar_NoEOFTest(b) == [b EXCEPT !.linepos = b.linepos - 1]

\* ungetNextChar
ungetNextChar(b) ==
  IF ~b.EOF_flag THEN [b EXCEPT !.linepos = b.linepos - 1] ELSE b

(***************************************************************************)
(* Reserved words.                                                         *)
(***************************************************************************)
reservedWords ==
  << [str |-> <<105, 102>>,                     tok |-> "IF"],
     [str |-> <<116, 104, 101, 110>>,           tok |-> "THEN"],
     [str |-> <<101, 108, 115, 101>>,           tok |-> "ELSE"],
     [str |-> <<101, 110, 100>>,                tok |-> "END"],
     [str |-> <<114, 101, 112, 101, 97, 116>>,  tok |-> "REPEAT"],
     [str |-> <<117, 110, 116, 105, 108>>,      tok |-> "UNTIL"],
     [str |-> <<114, 101, 97, 100>>,            tok |-> "READ"],
     [str |-> <<119, 114, 105, 116, 101>>,      tok |-> "WRITE"] >>

\* reservedLookup comparing only as many characters as the reserved word has
reservedLookup_Prefix(s) ==
  LET hits == {i \in 1..MAXRESERVED :
                 /\ Len(reservedWords[i].str) <= Len(s)
                 /\ reservedWords[i].str = SubSeq(s, 1, Len(reservedWords[i].str))}
  IN  IF hits = {} THEN "ID"
      ELSE reservedWords[CHOOSE i \in hits : \A j \in hits : i <= j].tok

\* reservedLookup: linear search, the first entry that strcmp finds equal
reservedLookup(s) ==
  LET hits == {i \in 1..MAXRESERVED : reservedWords[i].str = s}
  IN  IF hits = {} THEN "ID"
      ELSE reservedWords[CHOOSE i \in hits : \A j \in hits : i <= j].tok

\* the C string held in the array tokenString: the bytes before the first NUL
\* (all MAXTOKENLEN + 1 of them when the terminator was stored past the end)
CString(ts) == SubSeq(ts, 1, strlen(ts))

(***************************************************************************)
(* The switch of getToken: for the DFA state st and the character c, the   *)
(* new state, the save flag, whether ungetNextChar is called, and the      *)
(* token assigned (tok, when set is TRUE).                                 *)
(***************************************************************************)
Keep(st) == [state |-> st, save |-> TRUE, unget |-> FALSE, set |-> FALSE, tok |-> "NONE"]

\* a terminating case that always saves its character
Emit_AlwaysSaves(sv, t) ==
  [state |-> "DONE", save |-> TRUE, unget |-> FALSE, set |-> TRUE, tok |-> t]

Emit(sv, t) == [state |-> "DONE", save |-> sv, unget |-> FALSE, set |-> TRUE, tok |-> t]

\* a backup in the input that leaves the DFA scanning
Backup_KeepsScanning(t) ==
  [state |-> "START", save |-> FALSE, unget |-> TRUE, set |-> TRUE, tok |-> t]

Backup(t) == [state |-> "DONE", save |-> FALSE, unget |-> TRUE, set |-> TRUE, tok |-> t]

Skip(st) == [state |-> st, save |-> FALSE, unget |-> FALSE, set |-> FALSE, tok |-> "NONE"]

\* INID saving the character that ends the identifier
CaseINID_SavesLookahead(c) ==
  IF ~isalpha(c) THEN [Backup("ID") EXCEPT !.save = TRUE] ELSE Keep("INID")

\* INID without the backup in the input
CaseINID_NoBackup(c) ==
  IF ~isalpha(c) THEN Emit(FALSE, "ID") ELSE Keep("INID")

CaseINID(c) == IF ~isalpha(c) THEN Backup("ID") ELSE Keep("INID")

\* INNUM without the backup in the input
CaseINNUM_NoBackup(c) ==
  IF ~isdigit(c) THEN Emit(FALSE, "NUM") ELSE Keep("INNUM")

CaseINNUM(c) == IF ~isdigit(c) THEN Backup("NUM") ELSE Keep("INNUM")

\* INASSIGN without the backup in the input
CaseINASSIGN_NoBackup(c) ==
  IF c = 61 THEN Emit(TRUE, "ASSIGN") ELSE Emit(FALSE, "ERROR")

CaseINASSIGN(c) == IF c = 61 THEN Emit(TRUE, "ASSIGN") ELSE Backup("ERROR")

\* INCOMMENT leaving save set for the characters of the comment
CaseINCOMMENT_Saves(c) == IF c = 125 THEN Skip("START") ELSE Keep("INCOMMENT")

CaseINCOMMENT(c) == IF c = 125 THEN Skip("START") ELSE Skip("INCOMMENT")

\* the default of the inner switch of START without the save
StartDefault_NotSaved == Emit(FALSE, "ERROR")

\* the default of the inner switch of START: save stays TRUE
StartDefault == Emit(TRUE, "ERROR")

CaseSTART(c) ==
  IF isdigit(c) THEN Keep("INNUM")
  ELSE IF isalpha(c) THEN Keep("INID")
  ELSE IF c = 123 THEN Skip("INCOMMENT")
  ELSE IF IsWhite(c) THEN Skip("START")
  ELSE IF c = 58 THEN Keep("INASSIGN")
  ELSE CASE c = EOF -> Emit(FALSE, "ENDFILE")
         [] c = 43  -> Emit(FALSE, "PLUS")
         [] c = 45  -> Emit(FALSE, "MINUS")
         [] c = 42  -> Emit(FALSE, "TIMES")
         [] c = 47  -> Emit(FALSE, "OVER")
         [] c = 59  -> Emit(FALSE, "SEMI")
         [] c = 40  -> Emit(FALSE, "LPAREN")
         [] c = 41  -> Emit(FALSE, "RPAREN")
         [] c = 60  -> Emit(FALSE, "LT")
         [] c = 61  -> Emit(FALSE, "EQ")
         [] OTHER   -> StartDefault

Switch(st, c) ==
  CASE st = "INID"      -> CaseINID(c)
    [] st = "INNUM"     -> CaseINNUM(c)
    [] st = "INASSIGN"  -> CaseINASSIGN(c)
    [] st = "INCOMMENT" -> CaseINCOMMENT(c)
    [] st = "START"     -> CaseSTART(c)

\* the test that guards the store into tokenString
SaveTest(save, tokenStringIndex) == save /\ tokenStringIndex <= MAXTOKENLEN

\* tokenString[i] = ch for a C index i; a store past the last element
\* (i > MAXTOKENLEN) does not land in the array
Store(ts, i, ch) == IF i <= MAXTOKENLEN THEN [ts EXCEPT ![i + 1] = ch] ELSE ts

(***************************************************************************)
(* One iteration of the while loop of getToken on the machine record m:    *)
(* the buffer fields and tokenString, tokenStringIndex, currentToken,      *)
(* state, and overrun (a store outside tokenString has happened).          *)
(***************************************************************************)
LoopBody(m) ==
  LET g  == getNextChar(m)
      t  == Switch(m.state, g.c)
      u  == IF t.unget THEN ungetNextChar(g) ELSE g
      sv == SaveTest(t.save, m.tokenStringIndex)
      ts1 == IF sv THEN Store(m.tokenString, m.tokenStringIndex, IntToChar(g.c))
             ELSE m.tokenString
      ix == IF sv THEN m.tokenStringIndex + 1 ELSE m.tokenStringIndex
      ts2 == IF t.state = "DONE" THEN Store(ts1, ix, 0) ELSE ts1
      tk == IF t.set THEN t.tok ELSE m.currentToken
  IN  [u EXCEPT !.state = t.state,
                !.tokenString = ts2,
                !.tokenStringIndex = ix,
                !.overrun = m.overrun \/ (t.state = "DONE" /\ ix > MAXTOKENLEN),
                !.currentToken = IF t.state = "DONE" /\ tk = "ID"
                                 THEN reservedLookup(CString(ts2)) ELSE tk,
                !.unget = t.unget]


\* the machine record when main reaches its loop on the file src
InitMachine(src, signed) ==
  [source |-> src, srcpos |-> 0, charSigned |-> signed,
   lineBuf |-> << >>, linepos |-> 0, bufsize |-> 0,
   EOF_flag |-> FALSE, lineno |-> 0,
   tokenString |-> [i \in 1..(MAXTOKENLEN + 1) |-> 0],
   tokenStringIndex |-> 0, currentToken |-> "NONE",
   state |-> "START", c |-> 0, unget |-> FALSE, overrun |-> FALSE]

\* the locals of getToken as its initialization leaves them
\* the entry of getToken without the reset of tokenStringIndex
EnterGetToken_NoIndexReset(m) ==
  [m EXCEPT !.state = "START", !.currentToken = "NONE", !.c = 0,
            !.unget = FALSE]

EnterGetToken(m) ==
  [m EXCEPT !.tokenStringIndex = 0, !.state = "START",
            !.currentToken = "NONE", !.c = 0, !.unget = FALSE]

\* the while loop of getToken run from the machine record m, for at most
\* fuel iterations
RECURSIVE WhileLoop(_, _)
WhileLoop(m, fuel) ==
  IF m.state = "DONE" \/ fuel = 0 THEN m ELSE WhileLoop(LoopBody(m), fuel - 1)

\* the loop of main run from the machine record m: the kind and lexeme of
\* every token getToken returns, through ENDFILE; acc holds those returned
\* before.  A call that does not end within its fuel, or whose behaviour is
\* undefined, ends the sequence.
RECURSIVE MainLoop(_, _)
MainLoop(m, acc) ==
  LET r == WhileLoop(EnterGetToken(m), Len(m.source) + 2)
      t == [kind |-> r.currentToken, lexeme |-> CString(r.tokenString)]
  IN  IF r.state # "DONE" \/ r.overrun THEN acc
      ELSE IF r.currentToken = "ENDFILE" THEN Append(acc, t)
      ELSE MainLoop(r, Append(acc, t))

\* the kinds and lexemes the program returns on the file src
TokensOf(src, signed) == MainLoop(InitMachine(src, signed), << >>)

(***************************************************************************)
(* The state of the program.                                               *)
(***************************************************************************)
VARIABLES
  source,            \* the bytes of the file main opened
  srcpos,            \* how many of them fgets has read
  charSigned,        \* whether plain char is signed in this build
  lineBuf, linepos, bufsize, EOF_flag,
  lineno,
  tokenString,       \* the array, MAXTOKENLEN + 1 bytes
  tokenStringIndex, currentToken, state, c,   \* locals of getToken
  unget,             \* whether the last iteration called ungetNextChar
  overrun,           \* a store past the end of tokenString has happened
  pc,                \* "main", "loop", "return", "exit"; "undefined" once
                     \* the behaviour of the program is undefined
  listing,           \* the tokens returned so far: kind, lexeme, line printed
  taken,             \* how many characters getNextChar has delivered and
                     \* ungetNextChar has not put back
  tokStart,          \* the position in source of the first character of the
                     \* token being scanned, 0 when there is none
  got,               \* the ints getNextChar has returned to callers other
                     \* than getToken, in order
  linesRead,         \* how many times fgets has returned a line
  bufOps             \* the calls of getNextChar ("get") and ungetNextChar
                     \* ("unget") the current getToken call has made, in order

vars == << source, srcpos, charSigned, lineBuf, linepos, bufsize, EOF_flag,
           lineno, tokenString, tokenStringIndex, currentToken, state, c,
           unget, overrun, pc, listing, taken, tokStart, got, linesRead,
           bufOps >>

\* the machine record of the current state
Machine ==
  [source |-> source, srcpos |-> srcpos, charSigned |-> charSigned,
   lineBuf |-> lineBuf, linepos |-> linepos, bufsize |-> bufsize,
   EOF_flag |-> EOF_flag, lineno |-> lineno, tokenString |-> tokenString,
   tokenStringIndex |-> tokenStringIndex, currentToken |-> currentToken,
   state |-> state, c |-> c, unget |-> unget, overrun |-> overrun]

\* the variables of the program become the fields of the machine record n
Becomes(n) ==
  /\ source' = n.source
  /\ srcpos' = n.srcpos
  /\ charSigned' = n.charSigned
  /\ lineBuf' = n.lineBuf
  /\ linepos' = n.linepos
  /\ bufsize' = n.bufsize
  /\ EOF_flag' = n.EOF_flag
  /\ lineno' = n.lineno
  /\ tokenString' = n.tokenString
  /\ tokenStringIndex' = n.tokenStringIndex
  /\ currentToken' = n.currentToken
  /\ state' = n.state
  /\ c' = n.c
  /\ unget' = n.unget
  /\ overrun' = n.overrun

(***************************************************************************)
(* The source files the model is run on.                                   *)
(***************************************************************************)
\* a 1 : = { } space newline
Sigma == {97, 49, 58, 61, 123, 125, 32, 10}

ShortFiles == UNION {[1..n -> Sigma] : n \in 0..MaxLen}

Rep(ch, n) == [i \in 1..n |-> ch]

\* what follows a word: nothing, a newline, ";x"
Trails == { << >>, <<10>>, <<59, 120>> }

\* runs of one letter or one digit around the maximum token length
LongFiles ==
  { Rep(ch, n) \o t : ch \in {97, 49},
                      n \in (MAXTOKENLEN - 1)..(MAXTOKENLEN + MaxExtra),
                      t \in Trails }

Upper(s) == [i \in 1..Len(s) |-> IF s[i] >= 97 /\ s[i] <= 122 THEN s[i] - 32 ELSE s[i]]

Capital(s) == [i \in 1..Len(s) |-> IF i = 1 THEN s[i] - 32 ELSE s[i]]

\* the reserved words, their proper prefixes, each with one more letter, and
\* their other-case spellings
Words ==
  LET kw == {reservedWords[i].str : i \in 1..MAXRESERVED}
  IN  kw \cup UNION {{SubSeq(w, 1, k) : k \in 1..Len(w)} : w \in kw}
         \cup {w \o <<l>> : w \in kw, l \in {100, 115}}
         \cup {Upper(w) : w \in kw} \cup {Capital(w) : w \in kw}

\* what precedes a word: nothing, "1", "{if}", "x "
Leads == { << >>, <<49>>, <<123, 105, 102, 125>>, <<120, 32>> }

WordFiles == { l \o w \o t : l \in Leads, w \in Words, t \in Trails }

\* the worked examples:  x := 12;   if x then end   { comment } read x   a : b
\* :x   one of every operator   the other whitespace   {}{x} {}read   !a?1 #
Scenarios ==
  { <<120, 32, 58, 61, 32, 49, 50, 59>>,
    <<105, 102, 32, 120, 32, 116, 104, 101, 110, 32, 101, 110, 100>>,
    <<123, 32, 99, 111, 109, 109, 101, 110, 116, 32, 125, 32, 114, 101, 97, 100, 32, 120>>,
    <<97, 32, 58, 32, 98>>,
    <<58, 120>>,
    <<43, 45, 42, 47, 59, 40, 41, 60, 61, 10>>,
    <<9, 13, 12, 11, 123, 10, 125, 10>>,
    <<123, 125, 123, 120, 125, 32, 123, 125, 114, 101, 97, 100>>,
    <<33, 97, 63, 49, 10, 35>> }

\* the one-character operators + - * / ; ( ) < =
Operators == {43, 45, 42, 47, 59, 40, 41, 60, 61}

\* an operator between two characters that could start or continue a token
OpFiles == {<<x, o, y>> : x \in {97, 49, 58, 32, 61}, o \in Operators,
                          y \in {97, 49, 58, 61, 10}}

\* one line longer than fgets reads at once: blanks, then "ab;" across the
\* place where the line is cut, then a newline
LongLineFiles ==
  { Rep(32, n) \o <<97, 98, 59, 10>> : n \in (BUFLEN - 4)..(BUFLEN - 2) }

Files == ShortFiles \cup LongFiles \cup WordFiles \cup Scenarios
           \cup LongLineFiles \cup OpFiles

(***************************************************************************)
(* Init: main has opened the file, one of files, and is about to call      *)
(* getToken.                                                               *)
(***************************************************************************)
InitOn(files) ==
  /\ source \in files
  /\ charSigned \in BOOLEAN
  /\ srcpos = 0
  /\ lineBuf = << >>
  /\ linepos = 0
  /\ bufsize = 0
  /\ EOF_flag = FALSE
  /\ lineno = 0
  /\ tokenString = [i \in 1..(MAXTOKENLEN + 1) |-> 0]
  /\ tokenStringIndex = 0
  /\ currentToken = "NONE"
  /\ state = "START"
  /\ c = 0
  /\ unget = FALSE
  /\ overrun = FALSE
  /\ pc = "main"
  /\ listing = << >>
  /\ taken = 0
  /\ tokStart = 0
  /\ got = << >>
  /\ linesRead = 0
  /\ bufOps = << >>

Init == InitOn(Files)

(***************************************************************************)
(* getToken.                                                               *)
(***************************************************************************)
\* whether the getNextChar of the coming iteration has to read a line, and
\* whether it will deliver a character of the file
Refills == ~(linepos < bufsize)

Delivers == ~Refills \/ fgets(Machine) # << >>

\* main calls getToken: the initialization of its locals
GetTokenEntry ==
  /\ pc = "main"
  /\ Becomes(EnterGetToken(Machine))
  /\ pc' = "loop"
  /\ tokStart' = 0
  /\ bufOps' = << >>
  /\ UNCHANGED << listing, taken, got, linesRead >>

\* the position in source of the character lineBuf[linepos - 1], the one
\* getNextChar has just returned in the buffer state g: lineBuf holds the
\* bytes fgets read last, which end at srcpos
DeliveredAt(g) == g.srcpos - Len(g.lineBuf) + g.linepos

\* one iteration of the while loop
Iteration ==
  /\ IF Refills THEN lineno - linesRead < MaxSpin ELSE TRUE
  /\ LET n == LoopBody(Machine)
     IN  /\ Becomes(n)
         /\ pc' = IF n.overrun THEN "undefined"
                  ELSE IF n.state = "DONE" THEN "return" ELSE "loop"
         /\ taken' = IF Delivers /\ ~n.unget THEN taken + 1 ELSE taken
         /\ tokStart' = IF state = "START" /\ Delivers
                           /\ n.state \notin {"START", "INCOMMENT"}
                        THEN DeliveredAt(getNextChar(Machine)) ELSE tokStart
         /\ linesRead' = IF Refills /\ Delivers THEN linesRead + 1 ELSE linesRead
         /\ bufOps' = bufOps \o (IF n.unget THEN <<"get", "unget">> ELSE <<"get">>)
  /\ UNCHANGED << listing, got >>

\* the iteration by the case of the switch it takes
StepSTART ==
  /\ pc = "loop"
  /\ state = "START"
  /\ Iteration

StepINID ==
  /\ pc = "loop"
  /\ state = "INID"
  /\ Iteration

StepINNUM ==
  /\ pc = "loop"
  /\ state = "INNUM"
  /\ Iteration

StepINASSIGN ==
  /\ pc = "loop"
  /\ state = "INASSIGN"
  /\ Iteration

StepINCOMMENT ==
  /\ pc = "loop"
  /\ state = "INCOMMENT"
  /\ Iteration

\* the loop has ended: the trace line is printed, the token goes back to main,
\* whose loop ends on ENDFILE
GetTokenReturn ==
  /\ pc = "return"
  /\ listing' = Append(listing, [kind |-> currentToken,
                                 lexeme |-> CString(tokenString),
                                 line |-> lineno])
  /\ pc' = IF currentToken # "ENDFILE" THEN "main" ELSE "exit"
  /\ UNCHANGED << source, srcpos, charSigned, lineBuf, linepos, bufsize,
                  EOF_flag, lineno, tokenString, tokenStringIndex,
                  currentToken, state, c, unget, overrun, taken, tokStart,
                  got, linesRead, bufOps >>

Next ==
  \/ GetTokenEntry
  \/ StepSTART
  \/ StepINID
  \/ StepINNUM
  \/ StepINASSIGN
  \/ StepINCOMMENT
  \/ GetTokenReturn

Spec == Init /\ [][Next]_vars

(***************************************************************************)
(* What the claims are stated with.                                        *)
(***************************************************************************)
\* the int the next getNextChar would return
PeekChar == getNextChar(Machine).c

\* the first character of the file that the DFA has not accepted, EOF when
\* it has accepted them all
FirstUnscanned ==
  IF taken < Len(source) THEN CharToInt(source[taken + 1], charSigned) ELSE EOF

\* the number of physical lines of the file s
PhysicalLines(s) ==
  Cardinality({i \in 1..Len(s) : s[i] = 10})
    + (IF s # << >> /\ s[Len(s)] # 10 THEN 1 ELSE 0)

\* s from position i on consists of whitespace and complete comments only;
\* inside says whether position i lies in a comment
RECURSIVE WhiteAndComments(_, _, _)
WhiteAndComments(s, i, inside) ==
  IF i > Len(s) THEN ~inside
  ELSE IF inside THEN WhiteAndComments(s, i + 1, s[i] # 125)
  ELSE IF s[i] = 123 THEN WhiteAndComments(s, i + 1, TRUE)
  ELSE IsWhite(s[i]) /\ WhiteAndComments(s, i + 1, FALSE)

(***************************************************************************)
(* C2  Every getToken call runs to completion when the input runs out: an  *)
(* iteration to which getNextChar returned EOF ends the loop, so getToken  *)
(* is never back at the top of its loop with EOF as the character it just  *)
(* handled (from there getNextChar can only return EOF again, to the same  *)
(* DFA state).                                                             *)
(***************************************************************************)
C2_CallEndsWhenInputRunsOut == (pc = "loop" /\ EOF_flag) => c # EOF

(***************************************************************************)
(* C3  lineno equals the number of lines read from the source so far; in   *)
(* particular a getNextChar that finds no more input leaves it unchanged   *)
(* and it is 0 while no line has been read.                                *)
(***************************************************************************)
C3_LinenoCountsLinesRead == lineno = linesRead

(***************************************************************************)
(* C4  On an input of whitespace and complete comments only, every token   *)
(* getToken returns is ENDFILE, and lineno is then the number of physical  *)
(* lines of the input.                                                     *)
(***************************************************************************)
C4_OnlyEndfileAndLineCount ==
  (pc = "return" /\ WhiteAndComments(source, 1, FALSE))
    => (currentToken = "ENDFILE" /\ lineno = PhysicalLines(source))

(***************************************************************************)
(* C5  The number of characters stored in tokenString, which is also the   *)
(* index the terminating NUL is written at, never exceeds MAXTOKENLEN, and *)
(* no store falls outside the array.                                       *)
(***************************************************************************)
C5_LexemeWithinArray == tokenStringIndex <= MAXTOKENLEN /\ ~overrun

\* the kinds and lexemes of the tokens returned so far
Returned == [i \in 1..Len(listing) |-> [kind |-> listing[i].kind,
                                         lexeme |-> listing[i].lexeme]]

\* the end of the maximal run of letters, or of digits, that starts at p
LetterRunEnd(s, p) ==
  CHOOSE q \in p..Len(s) : /\ \A i \in p..q : isalpha(s[i])
                           /\ (q = Len(s) \/ ~isalpha(s[q + 1]))

DigitRunEnd(s, p) ==
  CHOOSE q \in p..Len(s) : /\ \A i \in p..q : isdigit(s[i])
                           /\ (q = Len(s) \/ ~isdigit(s[q + 1]))

\* the position of the last character of the token of the TINY language
\* that starts at position p of s: the run of letters, the run of digits,
\* the '=' after a ':', and p itself for every other character
TokenEnd(s, p) ==
  IF isalpha(s[p]) THEN LetterRunEnd(s, p)
  ELSE IF isdigit(s[p]) THEN DigitRunEnd(s, p)
  ELSE IF s[p] = 58 /\ p < Len(s) /\ s[p + 1] = 61 THEN p + 1
  ELSE p

\* the first and last positions of the tokens of s from position i on, read
\* off the text: whitespace and comments lie between tokens, and nothing
\* follows a comment that is not closed
RECURSIVE Segments(_, _)
Segments(s, i) ==
  IF i > Len(s) THEN << >>
  ELSE IF IsWhite(s[i]) THEN Segments(s, i + 1)
  ELSE IF s[i] = 123
       THEN LET cl == {j \in (i + 1)..Len(s) : s[j] = 125}
            IN  IF cl = {} THEN << >>
                ELSE Segments(s, (CHOOSE j \in cl : \A k \in cl : j <= k) + 1)
  ELSE <<[first |-> i, last |-> TokenEnd(s, i)]>>
         \o Segments(s, TokenEnd(s, i) + 1)

(***************************************************************************)
(* C1  When getToken returns its k-th token and it is not ENDFILE, the     *)
(* token is the k-th token of the text: it starts where that one starts    *)
(* (only whitespace and comments were passed since the token before), the  *)
(* last character the call has accepted is that token's last character,    *)
(* and the next getNextChar delivers the character right after it (EOF at  *)
(* the end of the file).  When ENDFILE is returned every token of the text *)
(* has been returned.  And in every state the next getNextChar delivers    *)
(* the first character not accepted so far: a character that was put back  *)
(* is delivered again, none is skipped, none is delivered twice.           *)
(***************************************************************************)
C1_PositionedAfterToken ==
  /\ PeekChar = FirstUnscanned
  /\ (pc = "return" /\ currentToken # "ENDFILE") =>
       LET segs == Segments(source, 1)
           k    == Len(listing) + 1
       IN  /\ k <= Len(segs)
           /\ tokStart = segs[k].first
           /\ taken = segs[k].last
           /\ PeekChar = IF segs[k].last < Len(source)
                         THEN CharToInt(source[segs[k].last + 1], charSigned)
                         ELSE EOF
  /\ (pc = "return" /\ currentToken = "ENDFILE") =>
       Len(listing) = Len(Segments(source, 1))

\* the second or a later token is being returned after its lookahead
\* character was put back, more tokens following it
C1_Witness ==
  /\ pc = "return"
  /\ unget
  /\ ~EOF_flag
  /\ currentToken \in {"ID", "NUM", "ERROR"}
  /\ Len(listing) >= 1
  /\ Len(Segments(source, 1)) > Len(listing) + 1
  /\ taken = Segments(source, 1)[Len(listing) + 1].last

\* getToken is returning a token whose first character is a letter / a digit
ReturnsWord == pc = "return" /\ tokStart > 0 /\ isalpha(source[tokStart])

ReturnsNumber == pc = "return" /\ tokStart > 0 /\ isdigit(source[tokStart])

\* the run of letters the token being returned starts
WordRun == SubSeq(source, tokStart, LetterRunEnd(source, tokStart))

\* the kind the eight reserved words have, ID for every other word
KindOfWord(w) ==
  CASE w = <<105, 102>>                    -> "IF"
    [] w = <<116, 104, 101, 110>>          -> "THEN"
    [] w = <<101, 108, 115, 101>>          -> "ELSE"
    [] w = <<101, 110, 100>>               -> "END"
    [] w = <<114, 101, 112, 101, 97, 116>> -> "REPEAT"
    [] w = <<117, 110, 116, 105, 108>>     -> "UNTIL"
    [] w = <<114, 101, 97, 100>>           -> "READ"
    [] w = <<119, 114, 105, 116, 101>>     -> "WRITE"
    [] OTHER                               -> "ID"

(***************************************************************************)
(* C6  A token that starts with ':' is ASSIGN with lexeme ":=" and both    *)
(* characters consumed when '=' follows; otherwise it is ERROR with lexeme *)
(* ":" and only the ':' consumed, the character after it being the next    *)
(* one delivered.  At the end of a run on a file that starts with such a   *)
(* bare ':', the tokens returned are that one ERROR followed by exactly    *)
(* the tokens returned on the rest of the file scanned from its start;     *)
(* "a : b" gives ID a, ERROR :, ID b, ENDFILE.                             *)
(***************************************************************************)
C6_AssignLookahead ==
  /\ (pc = "return" /\ tokStart > 0 /\ source[tokStart] = 58) =>
       IF tokStart < Len(source) /\ source[tokStart + 1] = 61
       THEN /\ currentToken = "ASSIGN"
            /\ CString(tokenString) = <<58, 61>>
            /\ taken = tokStart + 1
       ELSE /\ currentToken = "ERROR"
            /\ CString(tokenString) = <<58>>
            /\ taken = tokStart
            /\ PeekChar = FirstUnscanned
  /\ (pc = "exit" /\ source # << >> /\ source[1] = 58
        /\ (Len(source) = 1 \/ source[2] # 61)) =>
       Returned = << [kind |-> "ERROR", lexeme |-> <<58>>] >>
                    \o TokensOf(Tail(source), charSigned)
  /\ (pc = "exit" /\ source = <<97, 32, 58, 32, 98>>) =>
       Returned = << [kind |-> "ID", lexeme |-> <<97>>],
                     [kind |-> "ERROR", lexeme |-> <<58>>],
                     [kind |-> "ID", lexeme |-> <<98>>],
                     [kind |-> "ENDFILE", lexeme |-> << >>] >>

\* ":x" has been scanned to its end: ERROR for the ':', then ID x
C6_Witness ==
  /\ pc = "exit"
  /\ source = <<58, 120>>
  /\ Len(listing) = 3
  /\ listing[1].kind = "ERROR"
  /\ listing[2] = [kind |-> "ID", lexeme |-> <<120>>, line |-> listing[2].line]

(***************************************************************************)
(* C7  When the token being returned starts a run of letters that is no    *)
(* longer than MAXTOKENLEN and is none of the eight reserved words, its    *)
(* kind is ID, tokenString is the run verbatim, the run is maximal (no     *)
(* letter right before it) and has been consumed exactly to its end.       *)
(***************************************************************************)
C7_IdentifierVerbatim ==
  (ReturnsWord /\ Len(WordRun) <= MAXTOKENLEN /\ KindOfWord(WordRun) = "ID") =>
     /\ currentToken = "ID"
     /\ CString(tokenString) = WordRun
     /\ (tokStart = 1 \/ ~isalpha(source[tokStart - 1]))
     /\ taken = tokStart + Len(WordRun) - 1

\* an identifier of exactly MAXTOKENLEN letters is being returned, more
\* input following it
C7_Witness ==
  /\ ReturnsWord
  /\ Len(WordRun) = MAXTOKENLEN
  /\ currentToken = "ID"
  /\ taken < Len(source)

(***************************************************************************)
(* C8  The kind of a token that starts a run of letters is the kind of the *)
(* reserved word the whole run is equal to, and ID when the run is none of *)
(* the eight (a proper prefix, a reserved word with more letters after it, *)
(* another case).                                                          *)
(***************************************************************************)
C8_ReservedWordExactMatch == ReturnsWord => currentToken = KindOfWord(WordRun)

\* a reserved word with one more letter after it is being returned as ID
C8_Witness ==
  /\ ReturnsWord
  /\ WordRun = <<101, 110, 100, 115>>
  /\ currentToken = "ID"

(***************************************************************************)
(* C9  When the token being returned starts a run of digits that is no     *)
(* longer than MAXTOKENLEN, its kind is NUM, tokenString is exactly the    *)
(* run, the run is maximal, and the character that ended it is the next    *)
(* one getNextChar delivers.                                               *)
(***************************************************************************)
C9_NumberVerbatim ==
  (ReturnsNumber /\ DigitRunEnd(source, tokStart) - tokStart + 1 <= MAXTOKENLEN) =>
     LET q == DigitRunEnd(source, tokStart)
     IN  /\ currentToken = "NUM"
         /\ CString(tokenString) = SubSeq(source, tokStart, q)
         /\ (tokStart = 1 \/ ~isdigit(source[tokStart - 1]))
         /\ taken = q
         /\ PeekChar = (IF q < Len(source)
                        THEN CharToInt(source[q + 1], charSigned) ELSE EOF)

\* a number is being returned whose run was ended by a character of the file
C9_Witness ==
  /\ ReturnsNumber
  /\ currentToken = "NUM"
  /\ unget
  /\ taken < Len(source)
  /\ Len(CString(tokenString)) > 1

\* the position of the first '}' of s after position 1, 0 when there is none
CloseOf(s) ==
  LET cl == {i \in 2..Len(s) : s[i] = 125}
  IN  IF cl = {} THEN 0 ELSE CHOOSE i \in cl : \A j \in cl : i <= j

\* s with every complete comment removed
RECURSIVE WithoutComments(_)
WithoutComments(s) ==
  IF s = << >> THEN << >>
  ELSE IF Head(s) = 123 /\ CloseOf(s) > 0
       THEN WithoutComments(SubSeq(s, CloseOf(s) + 1, Len(s)))
       ELSE <<Head(s)>> \o WithoutComments(Tail(s))

\* s with every complete comment replaced by one space
RECURSIVE CommentsBlanked(_)
CommentsBlanked(s) ==
  IF s = << >> THEN << >>
  ELSE IF Head(s) = 123 /\ CloseOf(s) > 0
       THEN <<32>> \o CommentsBlanked(SubSeq(s, CloseOf(s) + 1, Len(s)))
       ELSE <<Head(s)>> \o CommentsBlanked(Tail(s))

\* two characters that belong to one token when they are adjacent
JoinPair(a, b) ==
  \/ isalpha(a) /\ isalpha(b)
  \/ isdigit(a) /\ isdigit(b)
  \/ a = 58 /\ b = 61

\* removing the complete comments of s makes two such characters adjacent;
\* prev is the last character kept (EOF when none), gap says that a comment
\* has been removed since
RECURSIVE RemovalJoins(_, _, _)
RemovalJoins(s, prev, gap) ==
  IF s = << >> THEN FALSE
  ELSE IF Head(s) = 123 /\ CloseOf(s) > 0
       THEN RemovalJoins(SubSeq(s, CloseOf(s) + 1, Len(s)), prev, TRUE)
       ELSE \/ gap /\ JoinPair(prev, Head(s))
            \/ RemovalJoins(Tail(s), Head(s), FALSE)

(***************************************************************************)
(* C10 as claimed: at the end of a run, the kinds and lexemes returned are *)
(* those returned on the input with its comments removed.                  *)
(***************************************************************************)
C10_SameAsWithCommentsRemoved ==
  pc = "exit" => Returned = TokensOf(WithoutComments(source), charSigned)

(***************************************************************************)
(* C10 as amended: at the end of a run, the kinds and lexemes returned are *)
(* those returned on the input with each comment replaced by one space,    *)
(* and those returned on the input with its comments removed unless the    *)
(* removal makes two letters, two digits or ':' and '=' adjacent.          *)
(***************************************************************************)
C10_CommentsAreSeparators ==
  pc = "exit" =>
    /\ Returned = TokensOf(CommentsBlanked(source), charSigned)
    /\ ~RemovalJoins(source, EOF, FALSE) =>
         Returned = TokensOf(WithoutComments(source), charSigned)

\* "{}{x} {}read" has been scanned to its end: READ, then ENDFILE
C10_Witness ==
  /\ pc = "exit"
  /\ source = <<123, 125, 123, 120, 125, 32, 123, 125, 114, 101, 97, 100>>
  /\ Returned = << [kind |-> "READ", lexeme |-> <<114, 101, 97, 100>>],
                   [kind |-> "ENDFILE", lexeme |-> << >>] >>

\* a character of a text file that START has no transition for
Unrecognized(ch) ==
  /\ ~isalpha(ch)
  /\ ~isdigit(ch)
  /\ ~IsWhite(ch)
  /\ ch \notin {123, 58, 43, 45, 42, 47, 59, 40, 41, 60, 61}

(***************************************************************************)
(* C11  A token that starts with a character START has no transition for   *)
(* is ERROR, tokenString holds exactly that character, that character alone *)
(* has been consumed (one getNextChar, nothing put back), and the character *)
(* after it is the next one delivered.  At the end of a run on a file that  *)
(* starts with such a character, the tokens returned are that one ERROR     *)
(* followed by exactly the tokens returned on the rest of the file.         *)
(***************************************************************************)
C11_ErrorTokenIsLocal ==
  /\ (pc = "return" /\ tokStart > 0 /\ Unrecognized(source[tokStart])) =>
       /\ currentToken = "ERROR"
       /\ CString(tokenString) = <<source[tokStart]>>
       /\ taken = tokStart
       /\ bufOps[Len(bufOps)] = "get"
       /\ PeekChar = FirstUnscanned
  /\ (pc = "exit" /\ source # << >> /\ Unrecognized(source[1])) =>
       Returned = << [kind |-> "ERROR", lexeme |-> <<source[1]>>] >>
                    \o TokensOf(Tail(source), charSigned)

\* "!a?1" newline "#" has been scanned to its end
C11_Witness ==
  /\ pc = "exit"
  /\ source = <<33, 97, 63, 49, 10, 35>>
  /\ Returned = << [kind |-> "ERROR", lexeme |-> <<33>>],
                   [kind |-> "ID", lexeme |-> <<97>>],
                   [kind |-> "ERROR", lexeme |-> <<63>>],
                   [kind |-> "NUM", lexeme |-> <<49>>],
                   [kind |-> "ERROR", lexeme |-> <<35>>],
                   [kind |-> "ENDFILE", lexeme |-> << >>] >>

(***************************************************************************)
(* A client that, unlike main, goes on calling getToken after it has       *)
(* returned ENDFILE, and that calls getNextChar (which is not static)      *)
(* itself between two calls of getToken.                                   *)
(***************************************************************************)
GetTokenAfterEndfile ==
  /\ pc = "exit"
  /\ Becomes(EnterGetToken(Machine))
  /\ pc' = "loop"
  /\ tokStart' = 0
  /\ bufOps' = << >>
  /\ UNCHANGED << listing, taken, got, linesRead >>

\* the client calls getNextChar: the character goes to the client, the locals
\* of getToken are not touched
ClientGetNextChar ==
  /\ pc \in {"main", "exit"}
  /\ Len(got) < MaxClientReads
  /\ IF Refills THEN lineno - linesRead < MaxSpin ELSE TRUE
  /\ LET g == getNextChar(Machine)
     IN  /\ Becomes([g EXCEPT !.c = c])
         /\ got' = Append(got, g.c)
  /\ taken' = IF Delivers THEN taken + 1 ELSE taken
  /\ linesRead' = IF Refills /\ Delivers THEN linesRead + 1 ELSE linesRead
  /\ UNCHANGED << pc, listing, tokStart, bufOps >>

NextClient ==
  \/ Next
  \/ GetTokenAfterEndfile
  \/ ClientGetNextChar

\* the files the client is followed on: the enumerated ones it can read in
\* fewer than MaxLen characters, the scenarios and the long lines
ClientFiles ==
  {f \in ShortFiles : Len(f) < MaxLen} \cup Scenarios \cup LongLineFiles

InitClient == InitOn(ClientFiles)

SpecClient == InitClient /\ [][NextClient]_vars

(***************************************************************************)
(* C12  End of input is absorbing.  getNextChar, called by getToken or by   *)
(* the client, returns EOF only with                                       *)
(* EOF_flag set, and once it is set the next getNextChar returns EOF again; *)
(* ungetNextChar, called once or twice, then leaves linepos as it is; and   *)
(* no token returned after an ENDFILE is anything but ENDFILE.              *)
(***************************************************************************)
C12_EndOfInputAbsorbing ==
  /\ c = EOF => EOF_flag
  /\ \A i \in 1..Len(got) :
       got[i] = EOF => /\ EOF_flag
                       /\ \A j \in i..Len(got) : got[j] = EOF
  /\ EOF_flag => PeekChar = EOF
  /\ EOF_flag => /\ ungetNextChar(Machine).linepos = linepos
                 /\ ungetNextChar(ungetNextChar(Machine)).linepos = linepos
  /\ \A i \in 1..Len(listing) : \A j \in i..Len(listing) :
       listing[i].kind = "ENDFILE" => listing[j].kind = "ENDFILE"

\* an identifier, then ENDFILE twice, and EOF as the only character a
\* getNextChar called by the client has returned
C12_Witness ==
  /\ Len(listing) >= 3
  /\ listing[1].kind = "ID"
  /\ listing[2].kind = "ENDFILE"
  /\ listing[3].kind = "ENDFILE"
  /\ got = <<EOF>>

\* the 1-based number of the physical line that position p of s lies on
LineOf(s, p) == 1 + Cardinality({i \in 1..(p - 1) : s[i] = 10})

(***************************************************************************)
(* C13  When getToken returns a token other than ENDFILE, lineno (the line *)
(* printed in the trace) is the number of the physical line that holds the *)
(* first character of the token, or of the one that holds its last.        *)
(***************************************************************************)
C13_LineOfToken ==
  (pc = "return" /\ currentToken # "ENDFILE") =>
     lineno \in {LineOf(source, tokStart), LineOf(source, taken)}

(***************************************************************************)
(* The program on files of arbitrary bytes: NUL, 0xFF, a 1 : { newline.    *)
(***************************************************************************)
ByteSigma == {0, 255, 97, 49, 58, 123, 10}

ByteFiles == UNION {[1..n -> ByteSigma] : n \in 0..MaxLen}

InitBytes == InitOn(ByteFiles)

SpecBytes == InitBytes /\ [][Next]_vars

(***************************************************************************)
(* C14  The cursor stays within the line: 0 <= linepos <= bufsize, and the *)
(* next getNextChar reads a new line exactly when linepos = bufsize.       *)
(***************************************************************************)
C14_CursorWithinLine ==
  /\ 0 <= linepos
  /\ linepos <= bufsize
  /\ Refills <=> linepos = bufsize

(***************************************************************************)
(* C18  When getToken returns ENDFILE the source is exhausted: fgets has   *)
(* read every byte of the file and found no more (EOF_flag is set), and    *)
(* getNextChar has delivered every byte of the file to the DFA.            *)
(***************************************************************************)
C18_EndfileOnlyAtEndOfSource ==
  (pc = "return" /\ currentToken = "ENDFILE") =>
     /\ EOF_flag
     /\ srcpos = Len(source)
     /\ taken = Len(source)

(***************************************************************************)
(* C15  Among the buffer operations of the current getToken call, every    *)
(* ungetNextChar comes right after a getNextChar, is the last operation of *)
(* the call (so there is at most one), and leaves the DFA in DONE.         *)
(***************************************************************************)
C15_PutBackDiscipline ==
  /\ \A i \in 1..Len(bufOps) :
       bufOps[i] = "unget" =>
          /\ i > 1
          /\ bufOps[i - 1] = "get"
          /\ i = Len(bufOps)
          /\ state = "DONE"
  /\ Cardinality({i \in 1..Len(bufOps) : bufOps[i] = "unget"}) <= 1
  /\ unget => (bufOps # << >> /\ bufOps[Len(bufOps)] = "unget")

\* a call that skipped a blank and then ended an identifier of two letters by
\* putting its lookahead back
C15_Witness ==
  /\ pc = "return"
  /\ currentToken = "ID"
  /\ bufOps = <<"get", "get", "get", "get", "unget">>
  /\ PeekChar = FirstUnscanned

\* the token kind of a one-character operator
OperatorKind(ch) ==
  CASE ch = 43 -> "PLUS"
    [] ch = 45 -> "MINUS"
    [] ch = 42 -> "TIMES"
    [] ch = 47 -> "OVER"
    [] ch = 59 -> "SEMI"
    [] ch = 40 -> "LPAREN"
    [] ch = 41 -> "RPAREN"
    [] ch = 60 -> "LT"
    [] ch = 61 -> "EQ"

(***************************************************************************)
(* C16  When the token being returned starts with one of + - * / ; ( ) <   *)
(* =, its kind is the kind of that operator, the operator is the only      *)
(* character the call has accepted, it was the last buffer operation (no   *)
(* lookahead read, nothing put back), the next character to be read is the *)
(* one after the operator, and tokenString is empty.                       *)
(***************************************************************************)
C16_SingleCharOperators ==
  (pc = "return" /\ tokStart > 0 /\ source[tokStart] \in Operators) =>
     /\ state = "DONE"
     /\ currentToken = OperatorKind(source[tokStart])
     /\ taken = tokStart
     /\ ~unget
     /\ \A i \in 1..Len(bufOps) : bufOps[i] = "get"
     /\ PeekChar = FirstUnscanned
     /\ CString(tokenString) = << >>
     /\ tokenStringIndex = 0

\* the nine operators in a row have been returned one by one
C16_Witness ==
  /\ pc = "exit"
  /\ source = <<43, 45, 42, 47, 59, 40, 41, 60, 61, 10>>
  /\ Returned = [i \in 1..10 |->
                   [kind |-> IF i = 10 THEN "ENDFILE" ELSE OperatorKind(source[i]),
                    lexeme |-> << >>]]

(***************************************************************************)
(* C17  A call of getToken has START and an empty lexeme before its first  *)
(* character is read, and the tokenString it returns with is made of the   *)
(* characters the call accepted for its token, in order and nothing else:  *)
(* all of them for an identifier, reserved word, number, := or error       *)
(* token, none for an operator or ENDFILE.                                 *)
(***************************************************************************)
C17_NoLeakBetweenCalls ==
  /\ (pc = "loop" /\ bufOps = << >>) => (state = "START" /\ tokenStringIndex = 0)
  /\ pc = "return" =>
       /\ tokenStringIndex = Len(CString(tokenString))
       /\ CString(tokenString) =
            IF currentToken \in {"ENDFILE"} \cup {OperatorKind(o) : o \in Operators}
            THEN << >>
            ELSE SubSeq(source, tokStart, taken)

\* a token of one character is being returned after blanks or a comment, the
\* call before having returned a longer lexeme whose later characters are still
\* in the array
C17_Witness ==
  /\ pc = "return"
  /\ listing # << >>
  /\ Len(listing[Len(listing)].lexeme) >= 3
  /\ Len(CString(tokenString)) = 1
  /\ tokenString[3] # 0
  /\ tokStart > 1
  /\ source[tokStart - 1] \in {32, 125}
====
